---- MODULE Spec2Model ----
(***************************************************************************)
(* The configuration system of flashlight (package config): the local      *)
(* configuration slot, the cloud configuration slot, the ETag cache, the   *)
(* cloud poll goroutines started by Configure, and the publication loop    *)
(* Run, which merges both slots and hands the result to the update        *)
(* handler.                                                                *)
(*                                                                         *)
(* Go pointers that may be nil are sequences of length at most one:        *)
(* <<>> is nil, <<v>> points to v.  The field "ver" of the snapshots and   *)
(* the field "from" of the cloud snapshot, the field "cver" of a request   *)
(* and the variable cycle are history variables: no action reads them to   *)
(* decide what the program does.                                           *)
(*                                                                         *)
(* Further specifications, each with its own initial state and actions:    *)
(*   SpecMerge, SpecHeap   mergedConfig on values and on heap objects      *)
(*   SpecDefaults          Config.ApplyDefaults                            *)
(*   SpecJitter            cloudPollSleepTime                              *)
(*   SpecViper             the viper-based variant of Run and Update       *)
(*   SpecSettings          package settings (Configure and the hello)      *)
(*   SpecAutoupdate        package autoupdate (Configure and the watchers) *)
(***************************************************************************)
EXTENDS Integers, Sequences, FiniteSets, TLC

\* ------------------------------------------------------------------ bounds
\* The calls of Configure, the polls started and the reloads of lantern.yaml
\* in one behaviour, taken together.
MaxEvents == 4

\* --------------------------------------------------------------- constants
DefaultCloudConfigURL == "https://config.getiantem.org/cloud.yaml.gz"
OtherCloudConfigURL == "https://example.org/other.yaml.gz"
URLs == {DefaultCloudConfigURL, OtherCloudConfigURL}
cloudflare == "cloudflare"
FallbackHost == 7
StatusOK == 200
StatusNotModified == 304
StatusServerError == 500
StatusNone == 0

defaultProxiedSites == {"site.default"}
defaultTrustedCAs == <<"pem.default">>
cloudflareMasquerades == {cloudflare}
fallbacks == {"fallback.chained"}
BadCert == "not.a.pem"

\* ------------------------------------------------------------ cloudConfig
emptyCloudConfig ==
    [FrontedServers |-> <<>>, ChainedServers |-> {}, MasqueradeSets |-> {},
     ProxiedSites |-> {}, TrustedCAs |-> <<>>, ver |-> 0,
     from |-> [url |-> "", etag |-> ""]]

CloudApplyDefaults(cfg) ==
    [cfg EXCEPT !.ProxiedSites = defaultProxiedSites,
                !.TrustedCAs = defaultTrustedCAs,
                !.MasqueradeSets = cfg.MasqueradeSets \cup cloudflareMasquerades,
                !.FrontedServers = <<FallbackHost>>,
                !.ChainedServers = fallbacks]

RECURSIVE InsertSorted(_, _)
InsertSorted(x, s) ==
    IF s = <<>> THEN <<x>>
    ELSE IF x <= Head(s) THEN <<x>> \o s
    ELSE <<Head(s)>> \o InsertSorted(x, Tail(s))

RECURSIVE SortFrontedServers(_)
SortFrontedServers(s) ==
    IF s = <<>> THEN <<>> ELSE InsertSorted(Head(s), SortFrontedServers(Tail(s)))

\* A cloud document: each field group is absent (<<>>) or present (<<v>>).
Doc(fs, cs, ms, ps, cas) ==
    [FrontedServers |-> fs, ChainedServers |-> cs, MasqueradeSets |-> ms,
     ProxiedSites |-> ps, TrustedCAs |-> cas]

DocA == Doc(<<<<2, 1>>>>, <<>>, <<>>, <<>>, <<>>)
DocB == Doc(<<<<3>>>>, <<{"chained.b"}>>, <<{"masq.b"}>>, <<{"site.b"}>>, <<<<"pem.b">>>>)
DocBadCA == Doc(<<<<4>>>>, <<>>, <<>>, <<>>, <<<<BadCert>>>>)
Docs == {DocA, DocB, DocBadCA}

\* A response body: the gzip layer, the YAML layer and the document.
Body(g, y, d) == [gzipOK |-> g, yamlOK |-> y, doc |-> d]
BadGzip == Body(FALSE, FALSE, DocA)
BadYAML == Body(TRUE, FALSE, DocA)

Field(docField, old) == IF docField = <<>> THEN old ELSE docField[1]

\* yaml.Unmarshal into updated: a field group the document names is
\* replaced, the others keep the value updated already had.
fromBytes(updateBytes, updated) ==
    [updated EXCEPT
       !.FrontedServers = Field(updateBytes.doc.FrontedServers, @),
       !.ChainedServers = Field(updateBytes.doc.ChainedServers, @),
       !.MasqueradeSets = Field(updateBytes.doc.MasqueradeSets, @),
       !.ProxiedSites = Field(updateBytes.doc.ProxiedSites, @),
       !.TrustedCAs = Field(updateBytes.doc.TrustedCAs, @)]

\* ----------------------------------------------------------------- Config
ClientConfig(pa, fs, cs, ms) ==
    [ProxyAll |-> pa, FrontedServers |-> fs, ChainedServers |-> cs,
     MasqueradeSets |-> ms]

RawConfig(role, url, id, client, ps, cas) ==
    [Role |-> role, Addr |-> "", UIAddr |-> "", CloudConfig |-> url,
     InstanceId |-> id, CpuProfile |-> "", AutoReport |-> <<>>,
     AutoLaunch |-> <<>>, Stats |-> <<>>, Client |-> client,
     ProxiedSites |-> ps, TrustedCAs |-> cas, ver |-> 0]

applyClientDefaults(cfg) ==
    [cfg EXCEPT !.AutoReport = IF @ = <<>> THEN <<TRUE>> ELSE @,
                !.AutoLaunch = IF @ = <<>> THEN <<FALSE>> ELSE @]

ApplyDefaults(cfg) ==
    LET c1 == [cfg EXCEPT
                 !.Role = IF @ = "" THEN "client" ELSE @,
                 !.Addr = IF @ = "" THEN "localhost:8787" ELSE @,
                 !.UIAddr = IF @ = "" THEN "localhost:16823" ELSE @,
                 !.CloudConfig = IF @ = "" THEN DefaultCloudConfigURL ELSE @,
                 !.InstanceId = IF @ = "" THEN "node.id" ELSE @,
                 !.Stats = IF @ = <<>> THEN <<"statshub">> ELSE @]
    IN IF c1.Client # <<>> /\ c1.Role = "client"
         THEN applyClientDefaults(c1) ELSE c1

\* The files lantern.yaml can hold.
FileDefault == RawConfig("", "", "", <<ClientConfig(FALSE, <<>>, {}, {})>>, {}, <<>>)
FileOther ==
    RawConfig("client", OtherCloudConfigURL, "id.other",
              <<ClientConfig(TRUE, <<9>>, {"chained.local"}, {"masq.local"})>>,
              {"site.local"}, <<BadCert>>)
FileServer == RawConfig("server", "", "id.server", <<>>, {}, <<>>)
LocalFiles == {FileDefault, FileOther, FileServer}

\* ------------------------------------------------------------------ merge
StaleProxiedSitesMerge(local, cloud) ==
    IF local.Client = <<>> THEN <<>>
    ELSE <<[local EXCEPT
              !.Client = <<[local.Client[1] EXCEPT
                              !.FrontedServers = cloud.FrontedServers,
                              !.ChainedServers = cloud.ChainedServers,
                              !.MasqueradeSets = cloud.MasqueradeSets]>>,
              !.TrustedCAs = cloud.TrustedCAs,
              !.ver = [l |-> local.ver, c |-> cloud.ver]]>>

\* mergedConfig: <<>> when the assignment through the nil Client faults.
mergedConfig(local, cloud) ==
    IF local.Client = <<>> THEN <<>>
    ELSE <<[local EXCEPT
              !.Client = <<[local.Client[1] EXCEPT
                              !.FrontedServers = cloud.FrontedServers,
                              !.ChainedServers = cloud.ChainedServers,
                              !.MasqueradeSets = cloud.MasqueradeSets]>>,
              !.ProxiedSites = cloud.ProxiedSites,
              !.TrustedCAs = cloud.TrustedCAs,
              !.ver = [l |-> local.ver, c |-> cloud.ver]]>>

TrustedCACerts(cfg) == cfg.TrustedCAs

SetTrustedCAs(certs) == \A i \in 1..Len(certs) : certs[i] # BadCert

\* updateGlobals returns nil exactly when the CAs could be installed.
updateGlobals(cfg) == SetTrustedCAs(TrustedCACerts(cfg))

CloudFields(cfg) ==
    [FrontedServers |-> cfg.Client[1].FrontedServers,
     ChainedServers |-> cfg.Client[1].ChainedServers,
     MasqueradeSets |-> cfg.Client[1].MasqueradeSets,
     ProxiedSites |-> cfg.ProxiedSites,
     TrustedCAs |-> cfg.TrustedCAs]

LocalFields(cfg) ==
    [Role |-> cfg.Role, Addr |-> cfg.Addr, UIAddr |-> cfg.UIAddr,
     CloudConfig |-> cfg.CloudConfig, InstanceId |-> cfg.InstanceId,
     CpuProfile |-> cfg.CpuProfile, AutoReport |-> cfg.AutoReport,
     AutoLaunch |-> cfg.AutoLaunch, Stats |-> cfg.Stats,
     ProxyAll |-> cfg.Client[1].ProxyAll]

SnapshotFields(cloud) ==
    [FrontedServers |-> cloud.FrontedServers,
     ChainedServers |-> cloud.ChainedServers,
     MasqueradeSets |-> cloud.MasqueradeSets,
     ProxiedSites |-> cloud.ProxiedSites,
     TrustedCAs |-> cloud.TrustedCAs]

\* ------------------------------------------------------------------ state
VARIABLES
    initPc,               \* how config.Init ended: "ok", "failed", "fault"
    localCfg,             \* atomic slot localCfg
    cloudCfg,             \* atomic slot cloudCfg
    lastCloudConfigETag,  \* map url -> validation token ("" when none)
    started,              \* number of goroutines startCloudPoll has spawned
    pc,                   \* position of each poll goroutine
    req,                  \* the request each poll goroutine has in flight
    bytes,                \* the decompressed body cloudPoll holds in b
    outcome,              \* how the last cloudPoll of each goroutine returned
    nextCh,               \* the value the manager offers on m.Next()
    runPc,                \* position of Run
    merged,               \* cfg of Init, then of the current cycle of Run
    delivered,            \* argument of the last call of updateHandler
    trustedCAs,           \* the certificates globals.SetTrustedCAs installed
    events,               \* Configure calls, polls and reloads so far
    writes,               \* number of local configurations loaded
    cycle,                \* what started the current cycle of Run
    probe,                \* inputs and results of the probes of pure functions
    \* package settings
    service,              \* TRUE once ui.Register returned the service
    baseSettings,         \* the package variable baseSettings
    helloSettings,        \* the settings the registered helloFn writes
    uiReceived,           \* what the UI client connected last was sent
    launchFile,           \* the last launcher.CreateLaunchFile argument
    settingsCalls,        \* calls of settings.Configure so far
    \* package autoupdate
    lastAddr,             \* the proxy address of the last Configure
    cfgMutex,             \* TRUE while cfgMutex is held
    httpClient,           \* the proxied client, nil or for one address
    watching,             \* the int32 watching
    updateMutex,          \* the goroutine holding updateMutex, 0 when free
    task,                 \* position of each goroutine Configure spawned
    tasks,                \* number of goroutines Configure spawned
    autoupdateCalls,      \* calls of autoupdate.Configure so far
    \* the viper-based variant of package config
    viperStore,           \* what viper holds of lantern.yaml
    inHandler,            \* the tasks inside updateHandler, with arguments
    updateRet             \* what the last call of config.Update returned

\* The packages settings and autoupdate and the viper-based variant of Run
\* have their own state; the configuration system leaves it alone.
settingsVars == <<service, baseSettings, helloSettings, uiReceived, launchFile,
                  settingsCalls>>
autoupdateVars == <<lastAddr, cfgMutex, httpClient, watching, updateMutex, task,
                    tasks, autoupdateCalls>>
viperVars == <<viperStore, inHandler, updateRet>>
subsystemVars == <<settingsVars, autoupdateVars, viperVars>>
aux == <<probe, subsystemVars>>

vars == <<initPc, localCfg, cloudCfg, lastCloudConfigETag, started, pc, req,
          bytes, outcome, nextCh, runPc, merged, delivered, trustedCAs,
          events, writes, cycle, aux>>

pollVars == <<lastCloudConfigETag, pc, req, bytes, outcome>>
runVars == <<runPc, merged, delivered, trustedCAs, cycle>>

Pollers == 1..MaxEvents
Tasks == 1..MaxEvents
NoFile == [cloudconfig |-> "", ver |-> 0, cloud |-> <<>>]
NoUpdate == [mutate |-> "", err |-> ""]

NoRequest == [url |-> "", hdr |-> "", got |-> "", cver |-> 0, stored |-> 0]
NoBytes == BadGzip
ProbeOff == [phase |-> "off"]

\* The goroutines blocked in "cloudConfigChanged <- true".
cloudConfigChanged == {p \in Pollers : pc[p] = "sending"}

InitialCloudConfigNoDefaults == emptyCloudConfig

\* Init: ccfg := emptyCloudConfig(); ccfg.ApplyDefaults(); cloudCfg.Store(ccfg)
InitialCloudConfig == CloudApplyDefaults(emptyCloudConfig)

\* config.Init: the slots after it returned, its result in merged.
ConfigInit(file, readable) ==
    /\ cloudCfg = InitialCloudConfig
    /\ localCfg = ApplyDefaults(file)
    /\ IF ~readable
         THEN initPc = "failed" /\ merged = <<>> /\ trustedCAs = <<>>
         ELSE LET cfg == mergedConfig(localCfg, cloudCfg) IN
              /\ merged = cfg
              /\ IF cfg = <<>>
                   THEN initPc = "fault" /\ trustedCAs = <<>>
                   ELSE IF updateGlobals(cfg[1])
                          THEN /\ initPc = "ok"
                               /\ trustedCAs = TrustedCACerts(cfg[1])
                          ELSE initPc = "failed" /\ trustedCAs = <<>>

Idle ==
    /\ lastCloudConfigETag = [u \in URLs |-> ""]
    /\ started = 0
    /\ pc = [p \in Pollers |-> "off"]
    /\ req = [p \in Pollers |-> NoRequest]
    /\ bytes = [p \in Pollers |-> NoBytes]
    /\ outcome = [p \in Pollers |-> "none"]
    /\ nextCh = <<>>
    /\ runPc = "idle"
    /\ delivered = <<>>
    /\ events = 0
    /\ writes = 0
    /\ cycle = [src |-> "init", ver |-> 0, cver |-> 0, calls |-> 0]

\* package settings before its first Configure
SettingsInit ==
    /\ service = FALSE
    /\ baseSettings = <<>>
    /\ helloSettings = <<>>
    /\ uiReceived = <<>>
    /\ launchFile = <<>>
    /\ settingsCalls = 0

\* package autoupdate before its first Configure
AutoupdateInit ==
    /\ lastAddr = ""
    /\ cfgMutex = FALSE
    /\ httpClient = <<>>
    /\ watching = 0
    /\ updateMutex = 0
    /\ task = [t \in Tasks |-> "off"]
    /\ tasks = 0
    /\ autoupdateCalls = 0

\* the viper-based variant before Run
ViperInit ==
    /\ viperStore = NoFile
    /\ inHandler = {}
    /\ updateRet = NoUpdate

SubsystemsInit == SettingsInit /\ AutoupdateInit /\ ViperInit

Init ==
    /\ \E file \in LocalFiles, readable \in BOOLEAN : ConfigInit(file, readable)
    /\ Idle
    /\ probe = ProbeOff
    /\ SubsystemsInit

\* ------------------------------------------------------------- Configure
\* Configure: m.StartPolling is a no-op when already started,
\* startCloudPoll spawns one more goroutine on every call.
Configure ==
    /\ initPc = "ok"
    /\ events < MaxEvents
    /\ events' = events + 1
    /\ started' = started + 1
    /\ pc' = [pc EXCEPT ![started + 1] = "sleeping"]
    /\ UNCHANGED <<initPc, localCfg, cloudCfg, lastCloudConfigETag, req, bytes,
                   outcome, nextCh, writes, aux>>
    /\ UNCHANGED runVars

\* The manager polls lantern.yaml once started, loads it with the defaults
\* applied and offers the result on m.Next().
ManagerNext ==
    /\ initPc = "ok"
    /\ started > 0
    /\ nextCh = <<>>
    /\ events < MaxEvents
    /\ events' = events + 1
    /\ \E file \in LocalFiles :
          nextCh' = <<[ApplyDefaults(file) EXCEPT !.ver = writes + 1]>>
    /\ writes' = writes + 1
    /\ UNCHANGED <<initPc, localCfg, cloudCfg, started, aux>>
    /\ UNCHANGED pollVars
    /\ UNCHANGED runVars

\* ------------------------------------------------------------- cloud poll
\* The answers the cloud endpoint (or the transport) can give.
Response(st, e, b) == [status |-> st, etag |-> e, body |-> b]
Responses ==
    {Response(st, "", BadGzip) :
        st \in {StatusNone, StatusNotModified, StatusServerError}}
      \cup {Response(StatusOK, "v1", Body(TRUE, TRUE, DocA)),
            Response(StatusOK, "", Body(TRUE, TRUE, DocA)),
            Response(StatusOK, "v2", Body(TRUE, TRUE, DocB)),
            Response(StatusOK, "v2", Body(TRUE, TRUE, DocBadCA)),
            Response(StatusOK, "v1", BadGzip),
            Response(StatusOK, "v2", BadYAML)}

fetchRecordsETagFirst(url, resp, etags) ==
    IF resp.status = StatusNone
      THEN [result |-> "neterr", etags |-> etags]
    ELSE IF resp.status = StatusNotModified
      THEN [result |-> "unchanged", etags |-> [etags EXCEPT ![url] = resp.etag]]
    ELSE IF resp.status # StatusOK
      THEN [result |-> "badstatus", etags |-> etags]
    ELSE IF ~resp.body.gzipOK
      THEN [result |-> "badgzip", etags |-> [etags EXCEPT ![url] = resp.etag]]
    ELSE [result |-> "bytes", etags |-> [etags EXCEPT ![url] = resp.etag]]

fetchForgetsETagOnError(url, resp, etags) ==
    IF resp.status = StatusNone
      THEN [result |-> "neterr", etags |-> etags]
    ELSE IF resp.status = StatusNotModified
      THEN [result |-> "unchanged", etags |-> etags]
    ELSE IF resp.status # StatusOK
      THEN [result |-> "badstatus", etags |-> [etags EXCEPT ![url] = ""]]
    ELSE IF ~resp.body.gzipOK
      THEN [result |-> "badgzip", etags |-> [etags EXCEPT ![url] = resp.etag]]
    ELSE [result |-> "bytes", etags |-> [etags EXCEPT ![url] = resp.etag]]

fetchKeepsOneETag(url, resp, etags) ==
    IF resp.status = StatusNone
      THEN [result |-> "neterr", etags |-> etags]
    ELSE IF resp.status = StatusNotModified
      THEN [result |-> "unchanged", etags |-> etags]
    ELSE IF resp.status # StatusOK
      THEN [result |-> "badstatus", etags |-> etags]
    ELSE IF ~resp.body.gzipOK
      THEN [result |-> "badgzip", etags |-> [u \in DOMAIN etags |-> resp.etag]]
    ELSE [result |-> "bytes", etags |-> [u \in DOMAIN etags |-> resp.etag]]

\* How fetchCloudConfig ends for a response: the error or result it returns
\* and the ETag cache it leaves.
fetchCloudConfig(url, resp, etags) ==
    IF resp.status = StatusNone
      THEN [result |-> "neterr", etags |-> etags]
    ELSE IF resp.status = StatusNotModified
      THEN [result |-> "unchanged", etags |-> etags]
    ELSE IF resp.status # StatusOK
      THEN [result |-> "badstatus", etags |-> etags]
    ELSE IF ~resp.body.gzipOK
      THEN [result |-> "badgzip", etags |-> [etags EXCEPT ![url] = resp.etag]]
    ELSE [result |-> "bytes", etags |-> [etags EXCEPT ![url] = resp.etag]]

\* cloudPoll up to the request: the url is read from localCfg, the
\* conditional header from the ETag cache.
PollFetch(p) ==
    /\ pc[p] = "sleeping"
    /\ events < MaxEvents
    /\ events' = events + 1
    /\ pc' = [pc EXCEPT ![p] = "fetching"]
    /\ req' = [req EXCEPT ![p] = [url |-> localCfg.CloudConfig,
                                  hdr |-> lastCloudConfigETag[localCfg.CloudConfig],
                                  got |-> "", cver |-> cloudCfg.ver,
                                  stored |-> 0]]
    /\ outcome' = [outcome EXCEPT ![p] = "none"]
    /\ UNCHANGED <<initPc, localCfg, cloudCfg, lastCloudConfigETag, started,
                   bytes, nextCh, writes, aux>>
    /\ UNCHANGED runVars

\* The response arrives: fetchCloudConfig returns to cloudPoll.
PollRespond(p) ==
    /\ pc[p] = "fetching"
    /\ \E resp \in Responses :
         LET f == fetchCloudConfig(req[p].url, resp, lastCloudConfigETag) IN
         /\ lastCloudConfigETag' = f.etags
         /\ IF f.result = "bytes"
              THEN /\ pc' = [pc EXCEPT ![p] = "decoding"]
                   /\ bytes' = [bytes EXCEPT ![p] = resp.body]
                   /\ req' = [req EXCEPT ![p].got = resp.etag]
                   /\ outcome' = outcome
              ELSE /\ pc' = [pc EXCEPT ![p] = "sleeping"]
                   /\ outcome' = [outcome EXCEPT ![p] = f.result]
                   /\ req' = [req EXCEPT ![p] = NoRequest]
                   /\ bytes' = bytes
    /\ UNCHANGED <<initPc, localCfg, cloudCfg, started, nextCh, events,
                   writes, aux>>
    /\ UNCHANGED runVars

PollApplyInPlace(p) ==
    /\ pc[p] = "decoding"
    /\ IF ~bytes[p].yamlOK
         THEN /\ pc' = [pc EXCEPT ![p] = "sleeping"]
              /\ outcome' = [outcome EXCEPT ![p] = "badyaml"]
              /\ req' = [req EXCEPT ![p] = NoRequest]
              /\ cloudCfg' = cloudCfg
         ELSE LET newCfg == fromBytes(bytes[p], cloudCfg) IN
              /\ cloudCfg' = [newCfg EXCEPT
                                !.FrontedServers = SortFrontedServers(@),
                                !.ver = cloudCfg.ver + 1,
                                !.from = [url |-> req[p].url,
                                          etag |-> req[p].got]]
              /\ req' = [req EXCEPT ![p].stored = cloudCfg.ver + 1]
              /\ pc' = [pc EXCEPT ![p] = "sending"]
              /\ outcome' = outcome
    /\ bytes' = [bytes EXCEPT ![p] = NoBytes]
    /\ UNCHANGED <<initPc, localCfg, lastCloudConfigETag, started, nextCh,
                   events, writes, aux>>
    /\ UNCHANGED runVars

PollApplyOverDefaults(p) ==
    /\ pc[p] = "decoding"
    /\ IF ~bytes[p].yamlOK
         THEN /\ pc' = [pc EXCEPT ![p] = "sleeping"]
              /\ outcome' = [outcome EXCEPT ![p] = "badyaml"]
              /\ req' = [req EXCEPT ![p] = NoRequest]
              /\ cloudCfg' = cloudCfg
         ELSE LET newCfg == fromBytes(bytes[p], InitialCloudConfig) IN
              /\ cloudCfg' = [newCfg EXCEPT
                                !.FrontedServers = SortFrontedServers(@),
                                !.ver = cloudCfg.ver + 1,
                                !.from = [url |-> req[p].url,
                                          etag |-> req[p].got]]
              /\ req' = [req EXCEPT ![p].stored = cloudCfg.ver + 1]
              /\ pc' = [pc EXCEPT ![p] = "sending"]
              /\ outcome' = outcome
    /\ bytes' = [bytes EXCEPT ![p] = NoBytes]
    /\ UNCHANGED <<initPc, localCfg, lastCloudConfigETag, started, nextCh,
                   events, writes, aux>>
    /\ UNCHANGED runVars

\* cloudPoll after the fetch: decode into an empty cloudConfig, sort, store.
PollApply(p) ==
    /\ pc[p] = "decoding"
    /\ IF ~bytes[p].yamlOK
         THEN /\ pc' = [pc EXCEPT ![p] = "sleeping"]
              /\ outcome' = [outcome EXCEPT ![p] = "badyaml"]
              /\ req' = [req EXCEPT ![p] = NoRequest]
              /\ cloudCfg' = cloudCfg
         ELSE LET newCfg == fromBytes(bytes[p], emptyCloudConfig) IN
              /\ cloudCfg' = [newCfg EXCEPT
                                !.FrontedServers = SortFrontedServers(@),
                                !.ver = cloudCfg.ver + 1,
                                !.from = [url |-> req[p].url,
                                          etag |-> req[p].got]]
              /\ req' = [req EXCEPT ![p].stored = cloudCfg.ver + 1]
              /\ pc' = [pc EXCEPT ![p] = "sending"]
              /\ outcome' = outcome
    /\ bytes' = [bytes EXCEPT ![p] = NoBytes]
    /\ UNCHANGED <<initPc, localCfg, lastCloudConfigETag, started, nextCh,
                   events, writes, aux>>
    /\ UNCHANGED runVars

\* ------------------------------------------------------------------- Run
RunRecvLocalDropsNext ==
    /\ initPc = "ok"
    /\ runPc = "idle"
    /\ nextCh # <<>>
    /\ localCfg' = localCfg
    /\ nextCh' = <<>>
    /\ runPc' = "merge"
    /\ cycle' = [src |-> "local", ver |-> nextCh[1].ver, cver |-> cloudCfg.ver,
                 calls |-> 0]
    /\ UNCHANGED <<initPc, cloudCfg, started, merged, delivered, trustedCAs,
                   events, writes, aux>>
    /\ UNCHANGED pollVars

\* select, case next := <-m.Next(): the offered configuration is stored.
RunRecvLocal ==
    /\ initPc = "ok"
    /\ runPc = "idle"
    /\ nextCh # <<>>
    /\ localCfg' = nextCh[1]
    /\ nextCh' = <<>>
    /\ runPc' = "merge"
    /\ cycle' = [src |-> "local", ver |-> nextCh[1].ver, cver |-> cloudCfg.ver,
                 calls |-> 0]
    /\ UNCHANGED <<initPc, cloudCfg, started, merged, delivered, trustedCAs,
                   events, writes, aux>>
    /\ UNCHANGED pollVars

\* select, case <-cloudConfigChanged: the send of goroutine p completes and
\* its cloudPoll returns.
RunRecvCloud(p) ==
    /\ initPc = "ok"
    /\ runPc = "idle"
    /\ p \in cloudConfigChanged
    /\ pc' = [pc EXCEPT ![p] = "sleeping"]
    /\ outcome' = [outcome EXCEPT ![p] = "applied"]
    /\ runPc' = "merge"
    /\ req' = [req EXCEPT ![p] = NoRequest]
    /\ cycle' = [src |-> "cloud", ver |-> req[p].stored, cver |-> cloudCfg.ver,
                 calls |-> 0]
    /\ UNCHANGED <<initPc, localCfg, cloudCfg, lastCloudConfigETag, started,
                   bytes, nextCh, merged, delivered, trustedCAs,
                   events, writes, aux>>

\* cfg := mergedConfig()
RunMerge ==
    /\ runPc = "merge"
    /\ merged' = mergedConfig(localCfg, cloudCfg)
    /\ runPc' = IF merged' = <<>> THEN "fault" ELSE "globals"
    /\ UNCHANGED <<initPc, localCfg, cloudCfg, started, nextCh, delivered,
                   trustedCAs, events, writes, cycle, aux>>
    /\ UNCHANGED pollVars

IgnoreGlobalsError == "handler"

\* Where Run goes when updateGlobals returns an error: "return err".
OnGlobalsError == "returned"

\* if err := updateGlobals(cfg); err != nil { return err }
RunUpdateGlobals ==
    /\ runPc = "globals"
    /\ IF updateGlobals(merged[1])
         THEN /\ trustedCAs' = TrustedCACerts(merged[1])
              /\ runPc' = "handler"
         ELSE /\ trustedCAs' = trustedCAs
              /\ runPc' = OnGlobalsError
    /\ UNCHANGED <<initPc, localCfg, cloudCfg, started, nextCh, merged,
                   delivered, events, writes, cycle, aux>>
    /\ UNCHANGED pollVars

\* updateHandler(cfg)
RunHandler ==
    /\ runPc = "handler"
    /\ delivered' = merged
    /\ cycle' = [cycle EXCEPT !.calls = @ + 1]
    /\ runPc' = "idle"
    /\ UNCHANGED <<initPc, localCfg, cloudCfg, started, nextCh, merged,
                   trustedCAs, events, writes, aux>>
    /\ UNCHANGED pollVars

Next ==
    \/ Configure
    \/ ManagerNext
    \/ \E p \in Pollers : PollFetch(p)
    \/ \E p \in Pollers : PollRespond(p)
    \/ \E p \in Pollers : PollApply(p)
    \/ RunRecvLocal
    \/ \E p \in Pollers : RunRecvCloud(p)
    \/ RunMerge
    \/ RunUpdateGlobals
    \/ RunHandler

Spec == Init /\ [][Next]_vars

TypeOK ==
    /\ initPc \in {"ok", "failed", "fault"}
    /\ runPc \in {"idle", "merge", "globals", "handler", "returned", "fault"}
    /\ \A p \in Pollers :
         pc[p] \in {"off", "sleeping", "fetching", "decoding", "sending", "handler"}

\* ------------------------------------------------------------ merge probe
\* mergedConfig applied to pairs of snapshots, then to the pair with one
\* side replaced.
ProbeLocals ==
    {ApplyDefaults(RawConfig(role, "", id, client, ps, <<>>)) :
        role \in {"", "server"}, id \in {"", "id.other"},
        client \in {<<>>, <<ClientConfig(FALSE, <<>>, {}, {})>>,
                    <<ClientConfig(TRUE, <<9>>, {"chained.local"}, {"masq.local"})>>},
        ps \in {{}, {"site.local"}}}

ProbeClouds ==
    {InitialCloudConfig} \cup {fromBytes(Body(TRUE, TRUE, d), emptyCloudConfig) : d \in Docs}

InitMerge ==
    /\ ConfigInit(FileDefault, TRUE)
    /\ Idle
    /\ SubsystemsInit
    /\ \E l \in ProbeLocals, c \in ProbeClouds :
          probe = [phase |-> "in", local |-> l, cloud |-> c, out |-> <<>>,
                   prev |-> <<>>, prevLocal |-> l, prevCloud |-> c]

mainVars == <<initPc, localCfg, cloudCfg, lastCloudConfigETag, started, pc, req,
              bytes, outcome, nextCh, runPc, merged, delivered, trustedCAs,
              events, writes, cycle>>

ProbeMerge ==
    /\ probe.phase = "in"
    /\ probe' = [probe EXCEPT !.phase = "out",
                              !.out = mergedConfig(probe.local, probe.cloud)]
    /\ UNCHANGED mainVars
    /\ UNCHANGED subsystemVars

ProbeChangeLocal ==
    /\ probe.phase \in {"out", "local", "cloud"}
    /\ \E l \in ProbeLocals \ {probe.local} :
          probe' = [phase |-> "local", local |-> l, cloud |-> probe.cloud,
                    out |-> mergedConfig(l, probe.cloud), prev |-> probe.out,
                    prevLocal |-> probe.local, prevCloud |-> probe.cloud]
    /\ UNCHANGED mainVars
    /\ UNCHANGED subsystemVars

ProbeChangeCloud ==
    /\ probe.phase \in {"out", "local", "cloud"}
    /\ \E c \in ProbeClouds \ {probe.cloud} :
          probe' = [phase |-> "cloud", local |-> probe.local, cloud |-> c,
                    out |-> mergedConfig(probe.local, c), prev |-> probe.out,
                    prevLocal |-> probe.local, prevCloud |-> probe.cloud]
    /\ UNCHANGED mainVars
    /\ UNCHANGED subsystemVars

NextMerge == ProbeMerge \/ ProbeChangeLocal \/ ProbeChangeCloud

SpecMerge == InitMerge /\ [][NextMerge]_vars

\* ------------------------------------------------- the viper-based variant
\* The variant of package config that keeps lantern.yaml in viper: Run starts
\* one poll goroutine and then serves the write events of the file watcher.
\* The goroutine is Pollers' first, the loop uses runPc, merged and
\* delivered as the loop of the other variant does.
ViperPoller == 1

\* &Config{}: applyFlags and applyDefaults of this variant only set values
\* in viper, the struct stays as allocated.
EmptyConfig == RawConfig("", "", "", <<>>, {}, <<>>)

viperFrame == <<initPc, localCfg, cloudCfg, started, nextCh, writes, cycle,
                probe, settingsVars, autoupdateVars>>

InitViper ==
    /\ ConfigInit(FileDefault, TRUE)
    /\ lastCloudConfigETag = [u \in URLs |-> ""]
    /\ started = 1
    /\ pc = [p \in Pollers |-> IF p = ViperPoller THEN "sleeping" ELSE "off"]
    /\ req = [p \in Pollers |-> NoRequest]
    /\ bytes = [p \in Pollers |-> NoBytes]
    /\ outcome = [p \in Pollers |-> "none"]
    /\ nextCh = <<>>
    /\ runPc = "idle"
    /\ delivered = <<>>
    /\ events = 0
    /\ writes = 0
    /\ cycle = [src |-> "init", ver |-> 0, cver |-> 0, calls |-> 0]
    /\ probe = ProbeOff
    /\ SettingsInit
    /\ AutoupdateInit
    /\ viperStore = [cloudconfig |-> DefaultCloudConfigURL, ver |-> 0,
                     cloud |-> SnapshotFields(InitialCloudConfig)]
    /\ inHandler = {}
    /\ updateRet = NoUpdate

\* t.Reset(cloudPollSleepTime()); <-t.C; url := viper.GetString("cloudconfig");
\* fetchCloudConfig(url) up to the request.
ViperPollFetch ==
    /\ pc[ViperPoller] = "sleeping"
    /\ events < MaxEvents
    /\ events' = events + 1
    /\ pc' = [pc EXCEPT ![ViperPoller] = "fetching"]
    /\ req' = [req EXCEPT ![ViperPoller] =
                  [url |-> viperStore.cloudconfig,
                   hdr |-> lastCloudConfigETag[viperStore.cloudconfig],
                   got |-> "", cver |-> 0, stored |-> 0]]
    /\ outcome' = [outcome EXCEPT ![ViperPoller] = "none"]
    /\ UNCHANGED <<lastCloudConfigETag, bytes, runPc, merged, delivered,
                   trustedCAs, viperVars>>
    /\ UNCHANGED viperFrame

\* fetchCloudConfig returns: "continue" on an error and on 304.
ViperPollRespond ==
    /\ pc[ViperPoller] = "fetching"
    /\ \E resp \in Responses :
         LET f == fetchCloudConfig(req[ViperPoller].url, resp, lastCloudConfigETag) IN
         /\ lastCloudConfigETag' = f.etags
         /\ IF f.result = "bytes"
              THEN /\ pc' = [pc EXCEPT ![ViperPoller] = "decoding"]
                   /\ bytes' = [bytes EXCEPT ![ViperPoller] = resp.body]
                   /\ outcome' = outcome
              ELSE /\ pc' = [pc EXCEPT ![ViperPoller] = "sleeping"]
                   /\ outcome' = [outcome EXCEPT ![ViperPoller] = f.result]
                   /\ bytes' = bytes
    /\ req' = [req EXCEPT ![ViperPoller] = NoRequest]
    /\ UNCHANGED <<runPc, merged, delivered, trustedCAs, events, viperVars>>
    /\ UNCHANGED viperFrame

\* updateFrom(buf), then the goroutine enters updateHandler(&Config{}).
ViperPollUpdateFrom ==
    /\ pc[ViperPoller] = "decoding"
    /\ IF ~bytes[ViperPoller].yamlOK
         THEN /\ pc' = [pc EXCEPT ![ViperPoller] = "sleeping"]
              /\ outcome' = [outcome EXCEPT ![ViperPoller] = "badyaml"]
              /\ UNCHANGED <<viperStore, inHandler>>
         ELSE /\ viperStore' =
                    [viperStore EXCEPT !.cloud =
                        SnapshotFields(fromBytes(bytes[ViperPoller], emptyCloudConfig))]
              /\ pc' = [pc EXCEPT ![ViperPoller] = "handler"]
              /\ inHandler' = inHandler \cup {[by |-> "poll", arg |-> EmptyConfig]}
              /\ outcome' = outcome
    /\ bytes' = [bytes EXCEPT ![ViperPoller] = NoBytes]
    /\ UNCHANGED <<lastCloudConfigETag, req, runPc, merged, delivered,
                   trustedCAs, events, updateRet>>
    /\ UNCHANGED viperFrame

\* updateHandler(&Config{}) returns to the goroutine.
ViperPollHandlerReturn ==
    /\ pc[ViperPoller] = "handler"
    /\ pc' = [pc EXCEPT ![ViperPoller] = "sleeping"]
    /\ inHandler' = {c \in inHandler : c.by # "poll"}
    /\ delivered' = <<EmptyConfig>>
    /\ outcome' = [outcome EXCEPT ![ViperPoller] = "handled"]
    /\ UNCHANGED <<lastCloudConfigETag, req, bytes, runPc, merged, trustedCAs,
                   events, viperStore, updateRet>>
    /\ UNCHANGED viperFrame

\* case event := <-watcher.Events with a write: viper.ReadInConfig(), then
\* cfg := &Config{} with applyFlags and applyDefaults.
ViperLoopWrite ==
    /\ runPc = "idle"
    /\ events < MaxEvents
    /\ events' = events + 1
    /\ \E file \in LocalFiles :
          viperStore' = [viperStore EXCEPT
                           !.cloudconfig = ApplyDefaults(file).CloudConfig,
                           !.ver = @ + 1]
    /\ merged' = <<EmptyConfig>>
    /\ runPc' = "globals"
    /\ UNCHANGED <<pollVars, delivered, trustedCAs, inHandler, updateRet>>
    /\ UNCHANGED viperFrame

\* err = updateGlobals(cfg); "continue" on an error, else the loop enters
\* updateHandler(cfg).
ViperLoopGlobals ==
    /\ runPc = "globals"
    /\ IF updateGlobals(merged[1])
         THEN /\ trustedCAs' = TrustedCACerts(merged[1])
              /\ runPc' = "handler"
              /\ inHandler' = inHandler \cup {[by |-> "loop", arg |-> merged[1]]}
         ELSE /\ runPc' = "idle"
              /\ UNCHANGED <<trustedCAs, inHandler>>
    /\ UNCHANGED <<pollVars, merged, delivered, events, viperStore, updateRet>>
    /\ UNCHANGED viperFrame

\* updateHandler(cfg) returns to the loop.
ViperLoopHandlerReturn ==
    /\ runPc = "handler"
    /\ runPc' = "idle"
    /\ inHandler' = {c \in inHandler : c.by # "loop"}
    /\ delivered' = merged
    /\ UNCHANGED <<pollVars, merged, trustedCAs, events, viperStore, updateRet>>
    /\ UNCHANGED viperFrame

\* The mutators a caller of config.Update passes: one that would return nil
\* and one that would return an error.
Mutators == {"mutate.ok", "mutate.error"}

\* Update of this variant: "return nil", the mutator is never invoked and
\* nothing is written.
ViperUpdate ==
    /\ events < MaxEvents
    /\ events' = events + 1
    /\ \E mutate \in Mutators : updateRet' = [mutate |-> mutate, err |-> "nil"]
    /\ UNCHANGED <<pollVars, runPc, merged, delivered, trustedCAs, viperStore,
                   inHandler>>
    /\ UNCHANGED viperFrame

NextViper ==
    \/ ViperPollFetch
    \/ ViperPollRespond
    \/ ViperPollUpdateFrom
    \/ ViperPollHandlerReturn
    \/ ViperLoopWrite
    \/ ViperLoopGlobals
    \/ ViperLoopHandlerReturn
    \/ ViperUpdate

SpecViper == InitViper /\ [][NextViper]_vars

\* -------------------------------------------------------- package settings
Versions == {"2.0.0", "2.0.1"}

Settings(version, buildDate, autoReport, autoLaunch, proxyAll) ==
    [Version |-> version, BuildDate |-> buildDate, AutoReport |-> autoReport,
     AutoLaunch |-> autoLaunch, ProxyAll |-> proxyAll]

\* start(baseSettings): helloFn writes the settings start was called with;
\* registered is whether ui.Register returned the service.
start(settings, registered) ==
    [service |-> registered,
     hello |-> IF registered THEN <<settings>> ELSE helloSettings]

settingsFrame == <<mainVars, probe, autoupdateVars, viperVars>>

InitSettings ==
    /\ ConfigInit(FileDefault, TRUE)
    /\ Idle
    /\ probe = ProbeOff
    /\ SubsystemsInit

\* settings.Configure(version, buildDate), under cfgMutex; the three flags
\* are what viper holds at the call.
SettingsConfigure ==
    /\ settingsCalls < MaxEvents
    /\ settingsCalls' = settingsCalls + 1
    /\ \E version \in Versions, autoReport \in BOOLEAN, autoLaunch \in BOOLEAN,
          proxyAll \in BOOLEAN, registered \in BOOLEAN :
         LET new == Settings(version, "build.date", autoReport, autoLaunch, proxyAll) IN
         IF ~service
           THEN /\ baseSettings' = <<new>>
                /\ service' = start(new, registered).service
                /\ helloSettings' = start(new, registered).hello
                /\ launchFile' = launchFile
           ELSE /\ launchFile' = IF autoLaunch # baseSettings[1].AutoLaunch
                                   THEN <<autoLaunch>> ELSE launchFile
                /\ baseSettings' = <<new>>
                /\ UNCHANGED <<service, helloSettings>>
    /\ uiReceived' = uiReceived
    /\ UNCHANGED settingsFrame

\* A UI client connects: the service calls helloFn, which writes.
ClientConnect ==
    /\ service
    /\ uiReceived' = helloSettings
    /\ UNCHANGED <<service, baseSettings, helloSettings, launchFile, settingsCalls>>
    /\ UNCHANGED settingsFrame

NextSettings == SettingsConfigure \/ ClientConnect

SpecSettings == InitSettings /\ [][NextSettings]_vars

\* ------------------------------------------------- probe of ApplyDefaults
\* ApplyDefaults applied to the configurations a lantern.yaml can decode to.
OptBool == {<<>>, <<TRUE>>, <<FALSE>>}

ProbeRaws ==
    {[RawConfig(role, "", id, client, {}, <<>>)
        EXCEPT !.AutoReport = autoReport, !.AutoLaunch = autoLaunch] :
        role \in {"", "client", "server"}, id \in {"", "id.other"},
        client \in {<<>>, <<ClientConfig(FALSE, <<>>, {}, {})>>},
        autoReport \in OptBool, autoLaunch \in OptBool}

InitDefaults ==
    /\ ConfigInit(FileDefault, TRUE)
    /\ Idle
    /\ SubsystemsInit
    /\ \E cfg \in ProbeRaws : probe = [phase |-> "raw", cfg |-> cfg, out |-> cfg]

ProbeApplyDefaults ==
    /\ probe.phase = "raw"
    /\ probe' = [probe EXCEPT !.phase = "defaulted", !.out = ApplyDefaults(probe.cfg)]
    /\ UNCHANGED mainVars
    /\ UNCHANGED subsystemVars

NextDefaults == ProbeApplyDefaults

SpecDefaults == InitDefaults /\ [][NextDefaults]_vars

\* --------------------------------------------- mergedConfig on the heap
\* The objects mergedConfig works on, each at its own address: a Config and
\* a cloudConfig hold the address of their ClientConfig in Client (<<>> is
\* nil).  The heap is the sequence of the objects allocated so far.
LocalAt == 1
CloudAt == 3
NoObject == [kind |-> "none"]

\* The heap that holds the two stored snapshots and nothing else.
HeapOf(local, cloud) ==
    << [local EXCEPT !.Client = IF @ = <<>> THEN <<>> ELSE <<LocalAt + 1>>],
       IF local.Client = <<>> THEN NoObject ELSE local.Client[1],
       [ProxiedSites |-> cloud.ProxiedSites, TrustedCAs |-> cloud.TrustedCAs,
        Client |-> <<CloudAt + 1>>],
       [FrontedServers |-> cloud.FrontedServers,
        ChainedServers |-> cloud.ChainedServers,
        MasqueradeSets |-> cloud.MasqueradeSets] >>

\* The object at address a with its ClientConfig read through the pointer.
ValueAt(heap, a) ==
    [heap[a] EXCEPT !.Client = IF @ = <<>> THEN <<>> ELSE <<heap[@[1]]>>]

\* deepcopy.Copy(&merged, src): merged is a new object, and so is every
\* object src points to.
deepcopyCopy(heap, src) ==
    IF heap[src].Client = <<>>
      THEN Append(heap, heap[src])
      ELSE Append(Append(heap, [heap[src] EXCEPT !.Client = <<Len(heap) + 2>>]),
                  heap[heap[src].Client[1]])

mergedConfigShallowCopy(heap) ==
    LET copied == Append(heap, heap[LocalAt])
        at == Len(heap) + 1
        cloud == copied[CloudAt]
    IN IF copied[at].Client = <<>>
         THEN [heap |-> copied, merged |-> <<>>]
         ELSE LET client == copied[at].Client[1]
                  cloudClient == copied[cloud.Client[1]]
              IN [heap |-> [copied EXCEPT
                              ![client].FrontedServers = cloudClient.FrontedServers,
                              ![client].ChainedServers = cloudClient.ChainedServers,
                              ![client].MasqueradeSets = cloudClient.MasqueradeSets,
                              ![at].ProxiedSites = cloud.ProxiedSites,
                              ![at].TrustedCAs = cloud.TrustedCAs],
                  merged |-> <<at>>]

\* mergedConfig with its writes: the heap it leaves and the address it
\* returns (<<>> when it faults on the nil Client of the copy).
mergedConfigOnHeap(heap) ==
    LET copied == deepcopyCopy(heap, LocalAt)
        at == Len(heap) + 1
        cloud == copied[CloudAt]
    IN IF copied[at].Client = <<>>
         THEN [heap |-> copied, merged |-> <<>>]
         ELSE LET client == copied[at].Client[1]
                  cloudClient == copied[cloud.Client[1]]
              IN [heap |-> [copied EXCEPT
                              ![client].FrontedServers = cloudClient.FrontedServers,
                              ![client].ChainedServers = cloudClient.ChainedServers,
                              ![client].MasqueradeSets = cloudClient.MasqueradeSets,
                              ![at].ProxiedSites = cloud.ProxiedSites,
                              ![at].TrustedCAs = cloud.TrustedCAs],
                  merged |-> <<at>>]

InitHeap ==
    /\ ConfigInit(FileDefault, TRUE)
    /\ Idle
    /\ SubsystemsInit
    /\ \E l \in ProbeLocals, c \in ProbeClouds :
          probe = [phase |-> "stored", local |-> l, cloud |-> c,
                   heap |-> HeapOf(l, c), returned |-> <<>>]

\* One call of mergedConfig; returned keeps what each call returned, read
\* at its return.
ProbeMergeCall ==
    /\ probe.phase \in {"stored", "once"}
    /\ LET call == mergedConfigOnHeap(probe.heap) IN
         probe' = [probe EXCEPT
                     !.phase = IF probe.phase = "stored" THEN "once" ELSE "twice",
                     !.heap = call.heap,
                     !.returned = Append(@, IF call.merged = <<>> THEN <<>>
                                            ELSE <<ValueAt(call.heap, call.merged[1])>>)]
    /\ UNCHANGED mainVars
    /\ UNCHANGED subsystemVars

NextHeap == ProbeMergeCall

SpecHeap == InitHeap /\ [][NextHeap]_vars

\* --------------------------------------------- probe of cloudPollSleepTime
\* Durations are counted in milliseconds (a time.Duration counts
\* nanoseconds; no value here comes near the int64 range).
Second == 1000
Minute == 60 * Second
CloudConfigPollInterval == 1 * Minute

\* rand.Int63n(n): the values it can return, 0 <= r < n.
Int63n(n) == 0..(n - 1)

IntervalPlusJitter(r) == CloudConfigPollInterval + r

\* cloudPollSleepTime for the value r that rand.Int63n returned.
cloudPollSleepTime(r) == (CloudConfigPollInterval \div 2) + r

InitJitter ==
    /\ ConfigInit(FileDefault, TRUE)
    /\ Idle
    /\ SubsystemsInit
    /\ probe = [phase |-> "awake", sleep |-> 0, polled |-> FALSE]

\* time.Sleep(cloudPollSleepTime())
ProbeSleep ==
    /\ probe.phase = "awake"
    /\ \E r \in Int63n(CloudConfigPollInterval) :
          probe' = [probe EXCEPT !.phase = "sleeping",
                                 !.sleep = cloudPollSleepTime(r)]
    /\ UNCHANGED mainVars
    /\ UNCHANGED subsystemVars

\* The sleep is over: cloudPoll(), and the loop goes round.
ProbeWake ==
    /\ probe.phase = "sleeping"
    /\ probe' = [phase |-> "awake", sleep |-> 0, polled |-> TRUE]
    /\ UNCHANGED mainVars
    /\ UNCHANGED subsystemVars

NextJitter == ProbeSleep \/ ProbeWake

SpecJitter == InitJitter /\ [][NextJitter]_vars

\* ------------------------------------------------------ package autoupdate
\* The proxy addresses viper can hold under "addr".
Addrs == {"localhost:8787", "localhost:8788"}

autoupdateFrame == <<mainVars, probe, settingsVars, viperVars>>

InitAutoupdate ==
    /\ ConfigInit(FileDefault, TRUE)
    /\ Idle
    /\ probe = ProbeOff
    /\ SubsystemsInit

\* autoupdate.Configure: returns at once when the address is unchanged or
\* empty; otherwise it spawns a goroutine and leaves cfgMutex locked for it.
AutoupdateConfigure ==
    /\ autoupdateCalls < MaxEvents
    /\ autoupdateCalls' = autoupdateCalls + 1
    /\ ~cfgMutex
    /\ \E proxyAddr \in Addrs \cup {""} :
         IF proxyAddr = lastAddr
           THEN UNCHANGED <<lastAddr, cfgMutex, task, tasks>>
           ELSE /\ lastAddr' = proxyAddr
                /\ IF proxyAddr = ""
                     THEN UNCHANGED <<cfgMutex, task, tasks>>
                     ELSE /\ cfgMutex' = TRUE
                          /\ tasks' = tasks + 1
                          /\ task' = [task EXCEPT ![tasks + 1] = "client"]
    /\ UNCHANGED <<httpClient, watching, updateMutex>>
    /\ UNCHANGED autoupdateFrame

\* The goroutine of Configure: httpClient, err = util.HTTPClient(...),
\* cfgMutex.Unlock(), and on success "go watchForUpdate()".
TaskHTTPClient(t) ==
    /\ task[t] = "client"
    /\ \E ok \in BOOLEAN :
         /\ httpClient' = IF ok THEN <<lastAddr>> ELSE <<>>
         /\ task' = [task EXCEPT ![t] = IF ok THEN "watch" ELSE "done"]
    /\ cfgMutex' = FALSE
    /\ UNCHANGED <<lastAddr, watching, updateMutex, tasks, autoupdateCalls>>
    /\ UNCHANGED autoupdateFrame

\* watchForUpdate: if atomic.LoadInt32(&watching) < 1
WatchLoad(t) ==
    /\ task[t] = "watch"
    /\ task' = [task EXCEPT ![t] = IF watching < 1 THEN "add" ELSE "done"]
    /\ UNCHANGED <<lastAddr, cfgMutex, httpClient, watching, updateMutex, tasks,
                   autoupdateCalls>>
    /\ UNCHANGED autoupdateFrame

\* atomic.AddInt32(&watching, 1), then the loop starts.
WatchAdd(t) ==
    /\ task[t] = "add"
    /\ watching' = watching + 1
    /\ task' = [task EXCEPT ![t] = "lock"]
    /\ UNCHANGED <<lastAddr, cfgMutex, httpClient, updateMutex, tasks,
                   autoupdateCalls>>
    /\ UNCHANGED autoupdateFrame

ApplyNextWithoutLock(t) ==
    /\ task[t] = "lock"
    /\ updateMutex' = t
    /\ task' = [task EXCEPT ![t] = IF httpClient # <<>> THEN "applying" ELSE "skip"]
    /\ UNCHANGED <<lastAddr, cfgMutex, httpClient, watching, tasks, autoupdateCalls>>
    /\ UNCHANGED autoupdateFrame

\* applyNext: updateMutex.Lock(); with a client, autoupdate.ApplyNext runs.
ApplyNextLock(t) ==
    /\ task[t] = "lock"
    /\ updateMutex = 0
    /\ updateMutex' = t
    /\ task' = [task EXCEPT ![t] = IF httpClient # <<>> THEN "applying" ELSE "skip"]
    /\ UNCHANGED <<lastAddr, cfgMutex, httpClient, watching, tasks, autoupdateCalls>>
    /\ UNCHANGED autoupdateFrame

\* applyNext returns: the deferred updateMutex.Unlock(), then
\* time.Sleep(applyNextAttemptTime).
ApplyNextReturn(t) ==
    /\ task[t] \in {"applying", "skip"}
    /\ updateMutex' = 0
    /\ task' = [task EXCEPT ![t] = "sleep"]
    /\ UNCHANGED <<lastAddr, cfgMutex, httpClient, watching, tasks, autoupdateCalls>>
    /\ UNCHANGED autoupdateFrame

\* The sleep is over, the loop calls applyNext again.
WatchWake(t) ==
    /\ task[t] = "sleep"
    /\ task' = [task EXCEPT ![t] = "lock"]
    /\ UNCHANGED <<lastAddr, cfgMutex, httpClient, watching, updateMutex, tasks,
                   autoupdateCalls>>
    /\ UNCHANGED autoupdateFrame

NextAutoupdate ==
    \/ AutoupdateConfigure
    \/ \E t \in Tasks : TaskHTTPClient(t)
    \/ \E t \in Tasks : WatchLoad(t)
    \/ \E t \in Tasks : WatchAdd(t)
    \/ \E t \in Tasks : ApplyNextLock(t)
    \/ \E t \in Tasks : ApplyNextReturn(t)
    \/ \E t \in Tasks : WatchWake(t)

SpecAutoupdate == InitAutoupdate /\ [][NextAutoupdate]_vars

\* ---------------------------------------------------------------- claims
InFlight == {p \in Pollers : pc[p] \in {"fetching", "decoding", "sending"}}

\* C1: a poll answered 200 whose body fails the gzip or the YAML decoding
\* ends with the stored CloudConfig, the ETag entry of the polled url and
\* the configuration last delivered to the handler as they were before it.
C1_FailureRetention ==
    [][\A p \in Pollers :
         (pc[p] \in {"fetching", "decoding"}
             /\ outcome'[p] \in {"badgzip", "badyaml"})
         => /\ cloudCfg'.ver = req[p].cver
            /\ lastCloudConfigETag'[req[p].url] = req[p].hdr
            /\ delivered' = delivered]_vars

\* C2: Run never returns: whatever signal it processed, also one whose
\* updateGlobals failed, the loop goes on.
C2_RunNeverReturns == runPc # "returned"

\* C3: at most one cloud poll is in flight, however often Configure was
\* called.
C3_PollsNeverOverlap == Cardinality(InFlight) <= 1

\* C4: the step in which a poll is answered 304 sends no cloud-change signal
\* and leaves the stored CloudConfig and the ETag cache as they are.
C4_UnchangedShortCircuit ==
    [][\A p \in Pollers :
         (pc[p] = "fetching" /\ outcome'[p] = "unchanged")
         => /\ cloudCfg' = cloudCfg
            /\ lastCloudConfigETag' = lastCloudConfigETag
            /\ pc'[p] = "sleeping"
            /\ cloudConfigChanged' = cloudConfigChanged
            /\ UNCHANGED runVars]_vars

C4_Witness ==
    \E p \in Pollers :
       /\ outcome[p] = "unchanged"
       /\ cloudCfg.ver > 0
       /\ lastCloudConfigETag[cloudCfg.from.url] # ""

\* C5: when updateGlobals fails for the merged configuration of a cycle, the
\* handler is not called in that cycle and the configuration last delivered
\* stays the previous one.
C5_NoPublishOnGlobalsError ==
    [][((runPc = "globals" /\ ~updateGlobals(merged[1])) \/ runPc = "returned")
         => /\ delivered' = delivered
            /\ cycle'.calls = cycle.calls
            /\ runPc' # "handler"]_vars

C5_Witness ==
    /\ runPc = "returned"
    /\ delivered # <<>>
    /\ merged # delivered
    /\ cycle.calls = 0

\* C6: every merge reads the local and the cloud snapshot stored last at
\* that moment, and the handler never receives a snapshot older than what
\* started the cycle or than what it received before.
C6_LatestSnapshot ==
    [][/\ (runPc = "merge" /\ runPc' = "globals")
            => /\ LocalFields(merged'[1]) = LocalFields(localCfg)
               /\ CloudFields(merged'[1]) = SnapshotFields(cloudCfg)
               /\ merged'[1].ver = [l |-> localCfg.ver, c |-> cloudCfg.ver]
       /\ (runPc = "handler" /\ runPc' = "idle")
            => /\ delivered' = merged
               /\ delivered'[1].ver.l = localCfg.ver
               /\ delivered'[1].ver.c >= cycle.cver
               /\ cycle.src = "local" => delivered'[1].ver.l = cycle.ver
               /\ cycle.src = "cloud" => delivered'[1].ver.c >= cycle.ver
               /\ delivered # <<>>
                    => /\ delivered'[1].ver.l >= delivered[1].ver.l
                       /\ delivered'[1].ver.c >= delivered[1].ver.c]_vars

\* Two polls stored before the signal of the first was taken: the cycle it
\* started delivered the snapshot of the second, merged with a reloaded
\* local configuration.
C6_Witness ==
    /\ delivered # <<>>
    /\ runPc = "idle"
    /\ cycle.src = "cloud"
    /\ cycle.calls = 1
    /\ delivered[1].ver.c > cycle.ver
    /\ delivered[1].ver.l >= 1

\* C7: with the cloud snapshot fixed, a change of the local snapshot leaves
\* the cloud-sourced fields of the merged result as they were; with the local
\* snapshot fixed, a change of the cloud snapshot leaves every other field.
C7_FieldIsolation ==
    /\ (probe.phase = "local" /\ probe.out # <<>> /\ probe.prev # <<>>)
          => CloudFields(probe.out[1]) = CloudFields(probe.prev[1])
    /\ (probe.phase = "cloud" /\ probe.out # <<>> /\ probe.prev # <<>>)
          => LocalFields(probe.out[1]) = LocalFields(probe.prev[1])

C7_Witness ==
    /\ probe.phase = "local"
    /\ probe.out # <<>>
    /\ probe.prev # <<>>
    /\ LocalFields(probe.out[1]) # LocalFields(probe.prev[1])
    /\ probe.local.ProxiedSites # probe.prevLocal.ProxiedSites
    /\ probe.local.ProxiedSites # probe.cloud.ProxiedSites

\* C8: a poll that sends the token e recorded from a 200 answer of its url
\* and is answered 304 leaves the merged fronted servers those of the
\* document that came with e.
C8_ConditionalRoundTrip ==
    [][\A p \in Pollers :
         (pc[p] = "fetching" /\ outcome'[p] = "unchanged" /\ req[p].hdr # "")
         => /\ cloudCfg'.from = [url |-> req[p].url, etag |-> req[p].hdr]
            /\ \A cfg \in {mergedConfig(localCfg', cloudCfg')} \ {<<>>} :
                  cfg[1].Client[1].FrontedServers = cloudCfg'.FrontedServers]_vars

\* C9: a cycle started by a local change, with no cloud change since, ends
\* with exactly one call of the handler, for the new local fields and the
\* cloud fields of the stored CloudConfig.
C9_ReloadOnWrite ==
    (/\ cycle.src = "local"
     /\ runPc \in {"idle", "returned"}
     /\ localCfg.Client # <<>>
     /\ cloudCfg.ver = cycle.cver)
    => /\ cycle.calls = 1
       /\ delivered # <<>>
       /\ LocalFields(delivered[1]) = LocalFields(localCfg)
       /\ CloudFields(delivered[1]) = SnapshotFields(cloudCfg)

\* C10: until a poll has stored a fetched document, the configuration Init
\* returned and every configuration handed to the handler carry the built-in
\* fallback servers, masquerades, proxied sites and CAs.
BuiltInFallback ==
    [FrontedServers |-> <<FallbackHost>>, ChainedServers |-> {"fallback.chained"},
     MasqueradeSets |-> {"cloudflare"}, ProxiedSites |-> {"site.default"},
     TrustedCAs |-> <<"pem.default">>]

C10_FallbackDefaults ==
    cloudCfg.ver = 0
    => /\ merged # <<>> => CloudFields(merged[1]) = BuiltInFallback
       /\ delivered # <<>> => CloudFields(delivered[1]) = BuiltInFallback

C10_Witness ==
    /\ cloudCfg.ver = 0
    /\ delivered # <<>>
    /\ delivered[1].ProxiedSites # FileOther.ProxiedSites
    /\ delivered[1].CloudConfig = OtherCloudConfigURL
    /\ \E p \in Pollers : outcome[p] \in {"badgzip", "badyaml", "badstatus", "neterr"}

\* C11: the step in which a poll ends with a transport failure or with a
\* status other than 200 and 304 leaves the stored CloudConfig and the ETag
\* cache as they are, sends no cloud-change signal and puts the goroutine
\* back to sleep in its loop, from where its next poll can start.
C11_ErrorPollRetains ==
    /\ [][\A p \in Pollers :
            (pc[p] = "fetching" /\ outcome'[p] \in {"neterr", "badstatus"})
            => /\ cloudCfg' = cloudCfg
               /\ lastCloudConfigETag' = lastCloudConfigETag
               /\ cloudConfigChanged' = cloudConfigChanged
               /\ pc'[p] = "sleeping"
               /\ UNCHANGED runVars]_vars
    /\ [](\A p \in Pollers :
            (pc[p] = "sleeping" /\ events < MaxEvents) => ENABLED PollFetch(p))

C11_Witness ==
    \E p \in Pollers :
       /\ outcome[p] \in {"neterr", "badstatus"}
       /\ pc[p] = "sleeping"
       /\ cloudCfg.ver > 0
       /\ lastCloudConfigETag[cloudCfg.from.url] # ""
       /\ events < MaxEvents

\* C20: the stored CloudConfig is never a snapshot whose certificates
\* updateGlobals rejects.
C20_StoredCloudAccepted == SetTrustedCAs(cloudCfg.TrustedCAs)

\* C12: whatever moment a reader loads a slot or holds the configuration
\* last handed over, the value is one complete snapshot: a loaded file with
\* its defaults, a decoded document (or the built-in fallback), or the merge
\* of two such; while a publication is under way the configuration handed
\* over stays the previous one until it is replaced by the new one as a
\* whole.
WholeLocalSnapshots == {ApplyDefaults(file) : file \in LocalFiles}

WholeCloudSnapshots ==
    {SnapshotFields(InitialCloudConfig)} \cup
    {SnapshotFields([fromBytes(Body(TRUE, TRUE, d), emptyCloudConfig)
                       EXCEPT !.FrontedServers = SortFrontedServers(@)]) : d \in Docs}

Complete(cfg) ==
    /\ \E l \in WholeLocalSnapshots :
          l.Client # <<>> /\ LocalFields(cfg) = LocalFields(l)
    /\ CloudFields(cfg) \in WholeCloudSnapshots

C12_NoTornRead ==
    /\ []([localCfg EXCEPT !.ver = 0] \in WholeLocalSnapshots)
    /\ [](SnapshotFields(cloudCfg) \in WholeCloudSnapshots)
    /\ [](delivered # <<>> => Complete(delivered[1]))
    /\ [][delivered' = delivered \/ (runPc = "handler" /\ delivered' = merged)]_vars

\* Both slots were replaced and the new merge is about to be handed over:
\* the previous configuration is still the one a reader holds.
C12_Witness ==
    /\ runPc = "handler"
    /\ localCfg.ver > 0
    /\ cloudCfg.ver > 0
    /\ delivered # <<>>
    /\ delivered # merged
    /\ LocalFields(delivered[1]) # LocalFields(merged[1])
    /\ CloudFields(delivered[1]) # CloudFields(merged[1])

\* C13: updateHandler is entered by the publication loop only, by one
\* invocation at a time, and with a configuration that carries the current
\* cloud fields; the cloud poll task never enters it.
C13_HandlerOnlyFromLoop ==
    /\ \A c \in inHandler : c.by = "loop"
    /\ Cardinality(inHandler) <= 1
    /\ \A c \in inHandler :
          /\ c.arg.ProxiedSites = viperStore.cloud.ProxiedSites
          /\ c.arg.TrustedCAs = viperStore.cloud.TrustedCAs

\* C19: a call of config.Update whose mutator returns an error returns an
\* error to its caller.
C19_UpdateReturnsError ==
    updateRet.mutate = "mutate.error" => updateRet.err # "nil"

\* C14: a UI client that connects is sent the settings of the most recent
\* call of settings.Configure.
C14_HelloSendsLatest ==
    [][uiReceived' # uiReceived => uiReceived' = baseSettings]_vars

\* C15: after ApplyDefaults a configuration whose role is "client" (given
\* or defaulted) has AutoReport and AutoLaunch set, to true and false where
\* they were unset; one whose role is "server" has both as they were.
C15_RoleDefaults ==
    probe.phase = "defaulted" =>
       /\ probe.out.Role = "client"
             => /\ probe.out.AutoReport =
                      (IF probe.cfg.AutoReport = <<>> THEN <<TRUE>> ELSE probe.cfg.AutoReport)
                /\ probe.out.AutoLaunch =
                      (IF probe.cfg.AutoLaunch = <<>> THEN <<FALSE>> ELSE probe.cfg.AutoLaunch)
       /\ probe.out.Role = "server"
             => /\ probe.out.AutoReport = probe.cfg.AutoReport
                /\ probe.out.AutoLaunch = probe.cfg.AutoLaunch

\* C16: two calls of mergedConfig on the same stored snapshots return equal
\* configurations, and after each call the stored snapshots, with the
\* objects they point to, are what they were before it.
C16_MergePure ==
    /\ probe.phase \in {"once", "twice"}
          => SubSeq(probe.heap, 1, 4) = HeapOf(probe.local, probe.cloud)
    /\ probe.phase = "twice" => probe.returned[1] = probe.returned[2]

C16_Witness ==
    /\ probe.phase = "twice"
    /\ probe.returned[1] # <<>>
    /\ Len(probe.heap) = 8
    /\ probe.local.Client[1].FrontedServers # probe.cloud.FrontedServers
    /\ probe.local.ProxiedSites # probe.cloud.ProxiedSites
    /\ CloudFields(probe.returned[2][1]) = SnapshotFields(probe.cloud)
    /\ LocalFields(probe.returned[2][1]) = LocalFields(probe.local)

\* C18: every sleep of the poll loop lasts at least 30 s and less than 90 s.
C18_JitterBound ==
    probe.phase = "sleeping"
       => (30 * Second <= probe.sleep /\ probe.sleep < 90 * Second)

\* The longest sleep, from the largest value rand.Int63n can return.
C18_Witness ==
    /\ probe.phase = "sleeping"
    /\ probe.polled
    /\ probe.sleep = 90 * Second - 1

\* C17: at no time are two update checks executing the body of applyNext
\* that calls autoupdate.ApplyNext.
Applying == {t \in Tasks : task[t] = "applying"}

C17_OneUpdateCheck == Cardinality(Applying) <= 1

\* Two watcher loops are running; one is inside the update check while the
\* other waits for updateMutex.
C17_Witness ==
    \E t1 \in Tasks, t2 \in Tasks :
       /\ t1 # t2
       /\ task[t1] = "applying"
       /\ task[t2] = "lock"
       /\ updateMutex = t1
       /\ watching = 2

\* C21: whenever the ETag cache holds a token for the cloud URL of the local
\* configuration, the stored CloudConfig was decoded from the document that
\* was served from that URL with that token.
C21_ETagMatchesStored ==
    lastCloudConfigETag[localCfg.CloudConfig] # ""
    => cloudCfg.from = [url |-> localCfg.CloudConfig,
                        etag |-> lastCloudConfigETag[localCfg.CloudConfig]]

\* C24: mergedConfig returns a configuration for every local configuration
\* Init or a reload stores: neither Init nor Run faults in it.
C24_MergeTotal ==
    /\ initPc # "fault"
    /\ runPc # "fault"
    /\ (initPc = "ok" => merged # <<>>)

\* C27: at most one goroutine is in the loop of watchForUpdate, and watching
\* is at most 1.
Watchers == {t \in Tasks : task[t] \in {"lock", "applying", "skip", "sleep"}}

C27_SingleWatcher ==
    /\ watching <= 1
    /\ Cardinality(Watchers) <= 1

\* C25: a poll takes its url from the local configuration and its
\* conditional header from the cache entry of that url (none when the entry
\* is empty), and a cache entry changes only in the step in which a poll of
\* its own url is answered 200.
C25_ETagKeyedByURL ==
    [][/\ \A p \in Pollers :
            (pc[p] = "sleeping" /\ pc'[p] = "fetching")
            => /\ req'[p].url = localCfg.CloudConfig
               /\ req'[p].hdr = lastCloudConfigETag[localCfg.CloudConfig]
       /\ \A u \in URLs :
            lastCloudConfigETag'[u] # lastCloudConfigETag[u]
            => \E p \in Pollers :
                  /\ pc[p] = "fetching"
                  /\ req[p].url = u
                  /\ (pc'[p] = "decoding" \/ outcome'[p] = "badgzip")]_vars

\* The local configuration now names the other url, whose entry is still
\* empty while the first url has a token: the poll carries no header.
C25_Witness ==
    \E p \in Pollers :
       /\ pc[p] = "fetching"
       /\ localCfg.ver > 0
       /\ req[p].url = OtherCloudConfigURL
       /\ req[p].hdr = ""
       /\ lastCloudConfigETag[DefaultCloudConfigURL] # ""
       /\ cloudCfg.from.url = DefaultCloudConfigURL

\* C26: the snapshot a successful poll stores holds, for each field group,
\* what the fetched document gives for it and nothing where the document
\* is silent (the fronted servers sorted).
FromDocumentAlone(doc) ==
    [FrontedServers |-> IF doc.FrontedServers = <<>> THEN <<>>
                        ELSE SortFrontedServers(doc.FrontedServers[1]),
     ChainedServers |-> IF doc.ChainedServers = <<>> THEN {}
                        ELSE doc.ChainedServers[1],
     MasqueradeSets |-> IF doc.MasqueradeSets = <<>> THEN {}
                        ELSE doc.MasqueradeSets[1],
     ProxiedSites |-> IF doc.ProxiedSites = <<>> THEN {} ELSE doc.ProxiedSites[1],
     TrustedCAs |-> IF doc.TrustedCAs = <<>> THEN <<>> ELSE doc.TrustedCAs[1]]

C26_WholesaleReplacement ==
    [][\A p \in Pollers :
         (pc[p] = "decoding" /\ pc'[p] = "sending")
         => SnapshotFields(cloudCfg') = FromDocumentAlone(bytes[p].doc)]_vars

\* The second stored snapshot comes from a document with fronted servers
\* only, after one with every field group was stored and delivered.
C26_Witness ==
    /\ cloudCfg.ver = 2
    /\ cloudCfg.FrontedServers = <<1, 2>>
    /\ cloudCfg.ProxiedSites = {}
    /\ cloudCfg.ChainedServers = {}
    /\ cloudCfg.TrustedCAs = <<>>
    /\ delivered # <<>>
    /\ delivered[1].ver.c = 1
    /\ delivered[1].ProxiedSites = {"site.b"}


\* --------------------------------------------------------- fair scheduling
\* The goroutines under a fair scheduler: a request that was sent is
\* answered (or fails), a goroutine that can take its next step takes it, and
\* the select of Run, which picks among its ready cases at random and serves
\* blocked senders in order, does not pass over a ready case forever.
Fairness ==
    /\ \A p \in Pollers : /\ WF_vars(PollRespond(p))
                          /\ WF_vars(PollApply(p))
                          /\ SF_vars(RunRecvCloud(p))
    /\ SF_vars(RunRecvLocal)
    /\ WF_vars(RunMerge)
    /\ WF_vars(RunUpdateGlobals)
    /\ WF_vars(RunHandler)

SpecFair == Init /\ [][Next]_vars /\ Fairness

\* C22: every started poll cycle (fetch, decode, store, change signal)
\* eventually completes and its goroutine is back in its sleep, as long as
\* the process has not died of the fault of mergedConfig.
C22_PollCycleCompletes ==
    \A p \in Pollers :
        (pc[p] \in {"fetching", "decoding", "sending"})
            ~> (pc[p] = "sleeping" \/ runPc = "fault")

\* C23: every poll that stored a decoded document (stamped v) is eventually
\* followed by a call of the update handler with the cloud fields of that
\* snapshot or of a later one; and a call of the handler made in response to
\* a change signal never carries cloud fields older than the snapshot the
\* signalling poll stored.  A process that died of the fault of mergedConfig
\* owes nothing.
C23_CloudChangeDelivered ==
    /\ \A p \in Pollers, v \in 1..MaxEvents :
          (pc[p] = "sending" /\ req[p].stored = v)
             ~> \/ delivered # <<>> /\ delivered[1].ver.c >= v
                \/ runPc = "fault"
    /\ [][(runPc = "handler" /\ runPc' = "idle" /\ cycle.src = "cloud")
            => delivered'[1].ver.c >= cycle.ver]_vars

====
